---- MODULE Spec2Model ----
(***************************************************************************)
(* Model of github.com/alun-dra/bserializer, package serializer:           *)
(* BaseSerializer.Serialize, Deserialize, Validate, SerializeToXML and     *)
(* SerializeToYAML (serializer/serializer.go, first BaseSerializer of the  *)
(* file), the error types (serializer/errors.go) and the predefined        *)
(* validators.                                                             *)
(*                                                                         *)
(* A call is one action.  Go's randomised map iteration is the choice of   *)
(* an order (a permutation of the map's keys) made by the action.  Every   *)
(* invocation of a caller-supplied function is appended to the ghost       *)
(* variable "calls", with its argument and its result.  A Go run-time      *)
(* panic (nil function value, failed type assertion) is the status         *)
(* "panic" of the call: nothing in the package recovers from it.           *)
(*                                                                         *)
(* A caller that hands the mapping returned by Serialize to a second call  *)
(* is the step PassResult; prev then remembers the record the first call   *)
(* was given.  out is the record Deserialize writes through its pointer    *)
(* argument, text the string SerializeToXML and SerializeToYAML return.    *)
(***************************************************************************)
EXTENDS Integers, Sequences, FiniteSets, TLC

VARIABLES s, data, op, ret, calls, out, prev, text

vars == <<s, data, op, ret, calls, out, prev, text>>

----------------------------------------------------------------------------
(* Bounds *)

\* longest Fields allowlist drawn
MaxFields == 2
\* longest validator chain drawn
MaxChain == 2
\* longest run of freely chosen characters at the head of a password drawn
MaxHead == 4

----------------------------------------------------------------------------
(* Dynamically typed values: interface{}                                   *)

\* A number is hi * 2^27 + num: two limbs, so that 64-bit integers and the
\* 53-bit mantissa of a float64 fit the model checker's integers.  A
\* negative number has hi = 0 and num < 0.
LimbBase == 134217728

Nil == [tag |-> "nil", str |-> "", num |-> 0, hi |-> 0]
Str(x) == [tag |-> "string", str |-> x, num |-> 0, hi |-> 0]
Float(k) == [tag |-> "float64", str |-> "", num |-> k, hi |-> 0]
GoInt(k) == [tag |-> "int", str |-> "", num |-> k, hi |-> 0]
GoInt64(h, k) == [tag |-> "int64", str |-> "", num |-> k, hi |-> h]
Float64(h, k) == [tag |-> "float64", str |-> "", num |-> k, hi |-> h]

\* hi limb of 2^53
Mantissa53 == 67108864

\* float64(n) for an integer 0 <= n < 2^54, round to nearest, ties to even:
\* exact below 2^53; from 2^53 on only even integers are representable
ToFloat64(h, k) ==
    IF h < Mantissa53 \/ k % 2 = 0 THEN Float64(h, k)
    ELSE IF ((k - 1) \div 2) % 2 = 0 THEN Float64(h, k - 1)
    ELSE IF k + 1 = LimbBase THEN Float64(h + 1, 0)
    ELSE Float64(h, k + 1)

FieldNames == {"name", "email", "role"}

\* a map[string]interface{} is a function on a subset of FieldNames
EmptyMap == [f \in {} |-> Nil]
MapsOver(names, values) == UNION {[d -> values] : d \in SUBSET names}

\* mutant of Delete: the key is left in the map
DeleteKeeps(m, field) == m

\* delete(m, field): no-op when the key is absent (and on a nil map)
Delete(m, field) == [f \in (DOMAIN m) \ {field} |-> m[f]]
\* m[field] = value
Store(m, field, value) == [f \in (DOMAIN m) \cup {field} |-> IF f = field THEN value ELSE m[f]]

\* the orders in which a range loop may visit the keys of a map
Orders(keys) ==
    {o \in [1..Cardinality(keys) -> keys] : \A k \in keys : \E i \in DOMAIN o : o[i] = k}

\* all sequences over S of length at most n
SeqsUpTo(S, n) == UNION {[1..k -> S] : k \in 0..n}

\* no text returned (the empty string)
NoText == [format |-> "none", kind |-> "none", fields |-> EmptyMap]

----------------------------------------------------------------------------
(* Errors: serializer/errors.go                                            *)

NoError == [type |-> "nil", Field |-> "", Value |-> Nil, Message |-> ""]
ValidationError(field, value, message) ==
    [type |-> "ValidationError", Field |-> field, Value |-> value, Message |-> message]
TransformationError(field, value, message) ==
    [type |-> "TransformationError", Field |-> field, Value |-> value, Message |-> message]
SerializationError(message) ==
    [type |-> "SerializationError", Field |-> "", Value |-> Nil, Message |-> message]

\* fmt's %v of a field value: a string as it is, nil as <nil>, an int in
\* decimal, a float64 by %g, which for a whole number below 10^6 is its
\* decimal digits (larger exponents take the e+NN form and are not drawn)
FormatV(value) ==
    CASE value.tag = "string" -> value.str
      [] value.tag = "nil" -> "<nil>"
      [] value.tag = "int" /\ value.hi = 0 -> ToString(value.num)
      [] value.tag = "float64" /\ value.hi = 0 /\ value.num < 1000000 -> ToString(value.num)

\* err.Error()
ErrorText(err) ==
    CASE err.type = "ValidationError" ->
            "Validation error on field '" \o err.Field \o "': " \o err.Message
               \o " (value: " \o FormatV(err.Value) \o ")"
      [] err.type = "TransformationError" ->
            "Transformation error on field '" \o err.Field \o "': " \o err.Message
               \o " (value: " \o FormatV(err.Value) \o ")"
      [] err.type = "SerializationError" -> "Serialization error: " \o err.Message

----------------------------------------------------------------------------
(* encoding/json as used by Serialize                                      *)

\* the record kinds drawn: a struct with json-tagged fields, a nil
\* interface, a slice, a number, and a channel (which json cannot encode)
ObjectKinds == {"struct"}
RecordKinds == {"struct", "nil", "slice", "number", "chan"}

MarshalUnsupported == "json: unsupported type: chan int"
UnmarshalMismatch(what) ==
    "json: cannot unmarshal " \o what \o " into Go value of type map[string]interface {}"

\* mutant of Marshal: only structs are encoded as objects, a map is
\* refused like any other unsupported type
MarshalStructsOnly(d) ==
    CASE d.kind \in {"chan", "map"} ->
             [err |-> MarshalUnsupported, json |-> "", members |-> EmptyMap]
      [] d.kind = "nil"    -> [err |-> "", json |-> "null", members |-> EmptyMap]
      [] d.kind = "slice"  -> [err |-> "", json |-> "array", members |-> EmptyMap]
      [] d.kind = "number" -> [err |-> "", json |-> "number", members |-> EmptyMap]
      [] OTHER             -> [err |-> "", json |-> "object", members |-> d.fields]

\* json.Marshal(data): the JSON text, as the JSON value it denotes
Marshal(d) ==
    CASE d.kind = "chan"   -> [err |-> MarshalUnsupported, json |-> "", members |-> EmptyMap]
      [] d.kind = "nil"    -> [err |-> "", json |-> "null", members |-> EmptyMap]
      [] d.kind = "slice"  -> [err |-> "", json |-> "array", members |-> EmptyMap]
      [] d.kind = "number" -> [err |-> "", json |-> "number", members |-> EmptyMap]
      [] OTHER             -> [err |-> "", json |-> "object", members |-> d.fields]

\* a JSON member value decoded into interface{}: every number is a float64
DecodeValue(v) == IF v.tag \in {"int", "int64"} THEN ToFloat64(v.hi, v.num) ELSE v

\* json.Unmarshal(jsonData, &result) with result a nil map[string]interface{}
Unmarshal(j) ==
    CASE j.json = "object" ->
             [err |-> "", isNil |-> FALSE,
              result |-> [f \in DOMAIN j.members |-> DecodeValue(j.members[f])]]
      [] j.json = "null"   -> [err |-> "", isNil |-> TRUE, result |-> EmptyMap]
      [] OTHER             -> [err |-> UnmarshalMismatch(j.json), isNil |-> TRUE, result |-> EmptyMap]

----------------------------------------------------------------------------
(* Caller-supplied functions                                               *)

\* strings.ToUpper on the strings drawn
ToUpper(x) ==
    CASE x = "admin" -> "ADMIN"
      [] x = "user"  -> "USER"
      [] x = "alice" -> "ALICE"
      [] OTHER       -> x

\* a nil function value stored in a configuration map: calling it panics
NilFunc == "NilFunc"

\* func(interface{}) interface{} values: README's upper-casing
\* transformation (with its unchecked type assertion) and a transformation
\* that returns nil
TransformKinds == {"ToUpper", "ReturnNil"}

\* transform(value) panics: nil function, or value.(string) on a non-string
TransformPanics(transform, value) ==
    \/ transform = NilFunc
    \/ transform = "ToUpper" /\ value.tag # "string"

Transform(transform, value) ==
    CASE transform = "ToUpper"   -> Str(ToUpper(value.str))
      [] transform = "ReturnNil" -> Nil
      [] OTHER                   -> value

\* func(map[string]interface{}) bool values: README's role check, and a
\* predicate that always excludes
ConditionKinds == {"IsAdmin", "Never"}

Condition(condition, m) ==
    CASE condition = "IsAdmin" -> "role" \in DOMAIN m /\ m["role"] = Str("admin")
      [] OTHER                 -> FALSE

\* the "nil" error a validator returns on success
NilError == "<nil>"

\* NotEmpty(value)
NotEmpty(value) ==
    IF value.tag # "string" THEN "value is not a string"
    ELSE IF value.str = "" THEN "value cannot be empty"
    ELSE NilError

\* Positive(value)
Positive(value) ==
    IF value.tag # "float64" THEN "value is not a number"
    ELSE IF value.hi = 0 /\ value.num <= 0 THEN "value must be positive"
    ELSE NilError

\* strings.ContainsAny(str, chars)
ContainsAny(str, chars) ==
    \E i \in 1..Len(str) : \E j \in 1..Len(chars) : SubSeq(str, i, i) = SubSeq(chars, j, j)

\* mutant of ValidPassword: no length check
ValidPasswordAnyLength(value) ==
    IF value.tag # "string" THEN "value is not a string"
    ELSE IF ~ContainsAny(value.str, "ABCDEFGHIJKLMNOPQRSTUVWXYZ")
    THEN "password must contain at least one uppercase letter"
    ELSE IF ~ContainsAny(value.str, "abcdefghijklmnopqrstuvwxyz")
    THEN "password must contain at least one lowercase letter"
    ELSE IF ~ContainsAny(value.str, "0123456789")
    THEN "password must contain at least one number"
    ELSE IF ~ContainsAny(value.str, "!@#$%^&*()_+=-")
    THEN "password must contain at least one special character"
    ELSE NilError

\* ValidPassword(value); len(str) counts bytes, one per character of the
\* ASCII strings drawn
ValidPassword(value) ==
    IF value.tag # "string" THEN "value is not a string"
    ELSE IF Len(value.str) < 8 THEN "password must be at least 8 characters long"
    ELSE IF ~ContainsAny(value.str, "ABCDEFGHIJKLMNOPQRSTUVWXYZ")
    THEN "password must contain at least one uppercase letter"
    ELSE IF ~ContainsAny(value.str, "abcdefghijklmnopqrstuvwxyz")
    THEN "password must contain at least one lowercase letter"
    ELSE IF ~ContainsAny(value.str, "0123456789")
    THEN "password must contain at least one number"
    ELSE IF ~ContainsAny(value.str, "!@#$%^&*()_+=-")
    THEN "password must contain at least one special character"
    ELSE NilError

\* func(interface{}) error values: the predefined validators, and a nil entry
ValidatorKinds == {"NotEmpty", "Positive", NilFunc}

Validation(validation, value) ==
    CASE validation = "NotEmpty" -> NotEmpty(value)
      [] validation = "Positive" -> Positive(value)
      [] validation = "ValidPassword" -> ValidPassword(value)
      [] OTHER                   -> NilError

----------------------------------------------------------------------------
(* Entries of the call log                                                 *)

\* id names the function called; returned is FALSE when the call panicked
TransformCall(field, id, value, returned, transformedValue) ==
    [fn |-> "transform", field |-> field, id |-> id, value |-> value, mapping |-> EmptyMap,
     returned |-> returned, out |-> transformedValue, include |-> FALSE, err |-> ""]
ConditionCall(field, id, m, include) ==
    [fn |-> "condition", field |-> field, id |-> id, value |-> Nil, mapping |-> m,
     returned |-> TRUE, out |-> Nil, include |-> include, err |-> ""]
ValidationCall(field, id, value, err) ==
    [fn |-> "validation", field |-> field, id |-> id, value |-> value, mapping |-> EmptyMap,
     returned |-> TRUE, out |-> Nil, include |-> FALSE, err |-> err]

----------------------------------------------------------------------------
(* BaseSerializer.Serialize                                                *)

\* what a call hands back: a returned (map, error) pair, or a panic
Returned(isNil, result, err, log) ==
    [status |-> "returned", isNil |-> isNil, result |-> result, err |-> err, calls |-> log]
Panicked(log) ==
    [status |-> "panic", isNil |-> TRUE, result |-> EmptyMap, err |-> NoError, calls |-> log]
\* a loop that ran to its end and leaves result for the next stage
Continue(isNil, result, log) ==
    [status |-> "continue", isNil |-> isNil, result |-> result, err |-> NoError, calls |-> log]

\* mutant of ApplyTransformations: the nil test is missing, a nil result is
\* stored like any other and the loop goes on
RECURSIVE ApplyTransformationsStoresNil(_, _, _, _)
ApplyTransformationsStoresNil(order, isNil, result, log) ==
    IF order = <<>> THEN Continue(isNil, result, log)
    ELSE LET field == Head(order)
             transform == s.Transformations[field]
         IN  IF field \notin DOMAIN result
             THEN ApplyTransformationsStoresNil(Tail(order), isNil, result, log)
             ELSE LET value == result[field] IN
                  IF TransformPanics(transform, value)
                  THEN Panicked(IF transform = NilFunc THEN log
                                ELSE Append(log, TransformCall(field, transform, value, FALSE, Nil)))
                  ELSE LET transformedValue == Transform(transform, value)
                           log2 == Append(log, TransformCall(field, transform, value, TRUE,
                                                              transformedValue))
                       IN  ApplyTransformationsStoresNil(Tail(order), isNil,
                                                         Store(result, field, transformedValue), log2)

\* mutant of ApplyTransformations: with an allowlist, only the fields it
\* lists are transformed
RECURSIVE ApplyTransformationsListedOnly(_, _, _, _)
ApplyTransformationsListedOnly(order, isNil, result, log) ==
    IF order = <<>> THEN Continue(isNil, result, log)
    ELSE LET field == Head(order)
             transform == s.Transformations[field]
             listed == {s.Fields[i] : i \in DOMAIN s.Fields}
         IN  IF field \notin DOMAIN result \/ (Len(s.Fields) > 0 /\ field \notin listed)
             THEN ApplyTransformationsListedOnly(Tail(order), isNil, result, log)
             ELSE LET value == result[field] IN
                  IF TransformPanics(transform, value)
                  THEN Panicked(IF transform = NilFunc THEN log
                                ELSE Append(log, TransformCall(field, transform, value, FALSE, Nil)))
                  ELSE LET transformedValue == Transform(transform, value)
                           log2 == Append(log, TransformCall(field, transform, value, TRUE,
                                                              transformedValue))
                       IN  IF transformedValue = Nil
                           THEN Returned(TRUE, EmptyMap,
                                         TransformationError(field, value, "transformation returned nil"),
                                         log2)
                           ELSE ApplyTransformationsListedOnly(Tail(order), isNil,
                                                     Store(result, field, transformedValue), log2)

\* for field, transform := range s.Transformations { ... }
RECURSIVE ApplyTransformations(_, _, _, _)
ApplyTransformations(order, isNil, result, log) ==
    IF order = <<>> THEN Continue(isNil, result, log)
    ELSE LET field == Head(order)
             transform == s.Transformations[field]
         IN  IF field \notin DOMAIN result
             THEN ApplyTransformations(Tail(order), isNil, result, log)
             ELSE LET value == result[field] IN
                  IF TransformPanics(transform, value)
                  THEN Panicked(IF transform = NilFunc THEN log
                                ELSE Append(log, TransformCall(field, transform, value, FALSE, Nil)))
                  ELSE LET transformedValue == Transform(transform, value)
                           log2 == Append(log, TransformCall(field, transform, value, TRUE,
                                                              transformedValue))
                       IN  IF transformedValue = Nil
                           THEN Returned(TRUE, EmptyMap,
                                         TransformationError(field, value, "transformation returned nil"),
                                         log2)
                           ELSE ApplyTransformations(Tail(order), isNil,
                                                     Store(result, field, transformedValue), log2)

\* mutant of ApplyConditionalFields: removing a field from a nil map faults
RECURSIVE ApplyConditionalFieldsNilFaults(_, _, _, _)
ApplyConditionalFieldsNilFaults(order, isNil, result, log) ==
    IF order = <<>> THEN Continue(isNil, result, log)
    ELSE LET field == Head(order)
             condition == s.ConditionalFields[field]
         IN  IF condition = NilFunc THEN Panicked(log)
             ELSE LET include == Condition(condition, result)
                      log2 == Append(log, ConditionCall(field, condition, result, include))
                  IN  IF ~include /\ isNil THEN Panicked(log2)
                      ELSE ApplyConditionalFieldsNilFaults(Tail(order), isNil,
                                             IF include THEN result ELSE Delete(result, field),
                                             log2)

\* for field, condition := range s.ConditionalFields { ... }
RECURSIVE ApplyConditionalFields(_, _, _, _)
ApplyConditionalFields(order, isNil, result, log) ==
    IF order = <<>> THEN Continue(isNil, result, log)
    ELSE LET field == Head(order)
             condition == s.ConditionalFields[field]
         IN  IF condition = NilFunc THEN Panicked(log)
             ELSE LET include == Condition(condition, result)
                      log2 == Append(log, ConditionCall(field, condition, result, include))
                  IN  ApplyConditionalFields(Tail(order), isNil,
                                             IF include THEN result ELSE Delete(result, field),
                                             log2)

\* mutant of FilterFields: the allowlist copies the values decoded from the
\* record, as if the filter ran before the transformations
FilterFieldsDecoded(isNil, result, log) ==
    IF Len(s.Fields) > 0
    THEN LET listed == {s.Fields[i] : i \in DOMAIN s.Fields}
             decoded == Unmarshal(Marshal(data)).result
             filtered == [field \in listed |->
                            IF field \in DOMAIN result THEN decoded[field] ELSE Nil]
         IN  Returned(FALSE, filtered, NoError, log)
    ELSE Returned(isNil, result, NoError, log)

\* mutant of FilterFields: a listed field missing from the mapping is omitted
FilterFieldsOmits(isNil, result, log) ==
    IF Len(s.Fields) > 0
    THEN LET listed == {s.Fields[i] : i \in DOMAIN s.Fields}
             filtered == [field \in listed \cap DOMAIN result |-> result[field]]
         IN  Returned(FALSE, filtered, NoError, log)
    ELSE Returned(isNil, result, NoError, log)

\* if len(s.Fields) > 0 { filtered := ...; return filtered, nil }; return result, nil
FilterFields(isNil, result, log) ==
    IF Len(s.Fields) > 0
    THEN LET listed == {s.Fields[i] : i \in DOMAIN s.Fields}
             filtered == [field \in listed |->
                            IF field \in DOMAIN result THEN result[field] ELSE Nil]
         IN  Returned(FALSE, filtered, NoError, log)
    ELSE Returned(isNil, result, NoError, log)

\* mutant of SerializeCall: the error of json.Unmarshal is not tested
SerializeCallUnchecked(d, tOrder, cOrder) ==
    LET m == Marshal(d) IN
    IF m.err # ""
    THEN Returned(TRUE, EmptyMap,
                  SerializationError("failed to serialize struct: " \o m.err), <<>>)
    ELSE LET u == Unmarshal(m)
             t == ApplyTransformations(tOrder, u.isNil, u.result, <<>>) IN
    IF t.status # "continue" THEN t
    ELSE LET c == ApplyConditionalFields(cOrder, t.isNil, t.result, t.calls) IN
    IF c.status # "continue" THEN c
    ELSE FilterFields(c.isNil, c.result, c.calls)

\* Serialize(data), the two map loops visiting their keys in the given orders
SerializeCall(d, tOrder, cOrder) ==
    LET m == Marshal(d) IN
    IF m.err # ""
    THEN Returned(TRUE, EmptyMap,
                  SerializationError("failed to serialize struct: " \o m.err), <<>>)
    ELSE LET u == Unmarshal(m) IN
    IF u.err # ""
    THEN Returned(TRUE, EmptyMap,
                  SerializationError("failed to convert JSON to map: " \o u.err), <<>>)
    ELSE LET t == ApplyTransformations(tOrder, u.isNil, u.result, <<>>) IN
    IF t.status # "continue" THEN t
    ELSE LET c == ApplyConditionalFields(cOrder, t.isNil, t.result, t.calls) IN
    IF c.status # "continue" THEN c
    ELSE FilterFields(c.isNil, c.result, c.calls)

----------------------------------------------------------------------------
(* BaseSerializer.SerializeToXML, BaseSerializer.SerializeToYAML           *)

\* xml.MarshalIndent(data, "", "  "): the text, as the record it spells
\* out; nothing is written for a nil interface, a channel is refused
EncodeXML(d) ==
    CASE d.kind = "chan" -> [status |-> "returned", err |-> "xml: unsupported type: chan int",
                             text |-> NoText]
      [] d.kind = "map"  -> [status |-> "returned",
                             err |-> "xml: unsupported type: map[string]interface {}",
                             text |-> NoText]
      [] OTHER           -> [status |-> "returned", err |-> "",
                             text |-> [format |-> "xml", kind |-> d.kind, fields |-> d.fields]]

\* yaml.Marshal(data): the text, as the record it spells out; yaml.v3
\* panics on a type it cannot marshal
EncodeYAML(d) ==
    CASE d.kind = "chan" -> [status |-> "panic", err |-> "", text |-> NoText]
      [] OTHER           -> [status |-> "returned", err |-> "",
                             text |-> [format |-> "yaml", kind |-> d.kind, fields |-> d.fields]]

\* mutant of SerializeToXMLCall: the record goes through the allowlist of
\* the configuration before it is encoded
SerializeToXMLFiltered(d) ==
    LET listed == {s.Fields[i] : i \in DOMAIN s.Fields}
        kept == IF Len(s.Fields) > 0
                THEN [d EXCEPT !.fields = [f \in listed \cap DOMAIN d.fields |-> d.fields[f]]]
                ELSE d
        x == EncodeXML(kept)
    IN  IF x.err # ""
        THEN [status |-> x.status, text |-> NoText,
              err |-> SerializationError("failed to serialize to XML: " \o x.err)]
        ELSE [status |-> x.status, text |-> x.text, err |-> NoError]

\* SerializeToXML(data)
SerializeToXMLCall(d) ==
    LET x == EncodeXML(d) IN
    IF x.err # ""
    THEN [status |-> x.status, text |-> NoText,
          err |-> SerializationError("failed to serialize to XML: " \o x.err)]
    ELSE [status |-> x.status, text |-> x.text, err |-> NoError]

\* SerializeToYAML(data)
SerializeToYAMLCall(d) ==
    LET y == EncodeYAML(d) IN
    IF y.err # ""
    THEN [status |-> y.status, text |-> NoText,
          err |-> SerializationError("failed to serialize to YAML: " \o y.err)]
    ELSE [status |-> y.status, text |-> y.text, err |-> NoError]

----------------------------------------------------------------------------
(* BaseSerializer.Deserialize                                              *)

\* json.Marshal writes the keys of a map in sorted order, and the decoder
\* reports the first mismatch it meets in the text
SortedNames == <<"email", "name", "role">>

\* the Go types of the struct fields drawn
FieldTypes == {"string", "int", "int64"}

\* the zero value of a struct field
ZeroValue(ty) == IF ty = "string" THEN Str("") ELSE [GoInt64(0, 0) EXCEPT !.tag = ty]

\* what the decoder calls a JSON value in its error
JSONKind(v) ==
    CASE v.tag = "string" -> "string"
      [] v.tag = "nil"    -> "null"
      [] OTHER            -> "number"

\* the JSON value encoded from v can be stored in a struct field of type ty:
\* null leaves the field alone, a string needs a string field, an integer
\* literal an integer field
Assignable(v, ty) ==
    \/ v.tag = "nil"
    \/ v.tag = "string" /\ ty = "string"
    \/ v.tag \in {"float64", "int", "int64"} /\ ty \in {"int", "int64"}

\* the struct field after the decoder stored the JSON value encoded from v
StoreField(v, ty, old) ==
    IF v.tag = "nil" THEN old
    ELSE IF ty = "string" THEN v
    ELSE [GoInt64(v.hi, v.num) EXCEPT !.tag = ty]

UnmarshalTypeError(v, field, ty) ==
    "json: cannot unmarshal " \o JSONKind(v) \o " into Go struct field ." \o field
        \o " of type " \o ty

\* json.Unmarshal(jsonData, out): out must be a pointer; members without a
\* struct field are skipped; a member of the wrong type is skipped too, and
\* the first such member is the error returned after the rest was stored
UnmarshalStruct(j, target) ==
    IF target.kind # "ptr"
    THEN [err |-> "json: Unmarshal(non-pointer)", fields |-> target.fields]
    ELSE IF j.json = "null" THEN [err |-> "", fields |-> target.fields]
    ELSE IF j.json # "object"
    THEN [err |-> "json: cannot unmarshal " \o j.json \o " into Go value", fields |-> target.fields]
    ELSE LET known == DOMAIN j.members \cap DOMAIN target.types
             bad == {f \in known : ~Assignable(j.members[f], target.types[f])}
             first == CHOOSE i \in DOMAIN SortedNames :
                         /\ SortedNames[i] \in bad
                         /\ \A k \in 1..(i - 1) : SortedNames[k] \notin bad
             fields == [f \in DOMAIN target.fields |->
                          IF f \in known \ bad
                          THEN StoreField(j.members[f], target.types[f], target.fields[f])
                          ELSE target.fields[f]]
         IN  [err |-> IF bad = {} THEN ""
                      ELSE UnmarshalTypeError(j.members[SortedNames[first]], SortedNames[first],
                                              target.types[SortedNames[first]]),
              fields |-> fields]

\* Deserialize(input, out)
DeserializeCall(input, target) ==
    LET m == Marshal(input) IN
    IF m.err # ""
    THEN [err |-> SerializationError("failed to convert map to JSON: " \o m.err),
          out |-> target]
    ELSE LET u == UnmarshalStruct(m, target) IN
         IF u.err # ""
         THEN [err |-> SerializationError("failed to deserialize JSON to struct: " \o u.err),
               out |-> [target EXCEPT !.fields = u.fields]]
         ELSE [err |-> NoError, out |-> [target EXCEPT !.fields = u.fields]]

----------------------------------------------------------------------------
(* BaseSerializer.Validate                                                 *)

\* mutant of RunValidations: a failure is reported only for the last
\* validator of the chain, the loop runs on after an earlier one
RECURSIVE RunValidationsRunsOn(_, _, _, _)
RunValidationsRunsOn(validations, field, value, log) ==
    IF validations = <<>> THEN Continue(TRUE, EmptyMap, log)
    ELSE LET validation == Head(validations) IN
         IF validation = NilFunc THEN Panicked(log)
         ELSE LET err == Validation(validation, value)
                  log2 == Append(log, ValidationCall(field, validation, value, err))
              IN  IF err # NilError /\ Tail(validations) = <<>>
                  THEN Returned(TRUE, EmptyMap, ValidationError(field, value, err), log2)
                  ELSE RunValidationsRunsOn(Tail(validations), field, value, log2)

\* for _, validation := range validations { ... }
RECURSIVE RunValidations(_, _, _, _)
RunValidations(validations, field, value, log) ==
    IF validations = <<>> THEN Continue(TRUE, EmptyMap, log)
    ELSE LET validation == Head(validations) IN
         IF validation = NilFunc THEN Panicked(log)
         ELSE LET err == Validation(validation, value)
                  log2 == Append(log, ValidationCall(field, validation, value, err))
              IN  IF err # NilError
                  THEN Returned(TRUE, EmptyMap, ValidationError(field, value, err), log2)
                  ELSE RunValidations(Tail(validations), field, value, log2)

\* mutant of ValidateFields: the presence test is dropped and the chain of
\* a missing field runs on the zero value data[field] yields
RECURSIVE ValidateFieldsNoPresenceTest(_, _, _)
ValidateFieldsNoPresenceTest(order, m, log) ==
    IF order = <<>> THEN Returned(TRUE, EmptyMap, NoError, log)
    ELSE LET field == Head(order)
             value == IF field \in DOMAIN m THEN m[field] ELSE Nil
             v == RunValidations(s.Validations[field], field, value, log)
         IN  IF v.status # "continue" THEN v
             ELSE ValidateFieldsNoPresenceTest(Tail(order), m, v.calls)

\* mutant of ValidateFields: the loop is left with nil as soon as the chain
\* of one field has passed
RECURSIVE ValidateFieldsUntilOnePasses(_, _, _)
ValidateFieldsUntilOnePasses(order, m, log) ==
    IF order = <<>> THEN Returned(TRUE, EmptyMap, NoError, log)
    ELSE LET field == Head(order) IN
         IF field \in DOMAIN m
         THEN LET v == RunValidations(s.Validations[field], field, m[field], log) IN
              IF v.status # "continue" THEN v
              ELSE Returned(TRUE, EmptyMap, NoError, v.calls)
         ELSE Returned(TRUE, EmptyMap, ValidationError(field, Nil, "field is missing"), log)

\* mutant of ValidateFields: a field whose value is nil counts as missing
RECURSIVE ValidateFieldsNilIsMissing(_, _, _)
ValidateFieldsNilIsMissing(order, m, log) ==
    IF order = <<>> THEN Returned(TRUE, EmptyMap, NoError, log)
    ELSE LET field == Head(order) IN
         IF field \in DOMAIN m /\ m[field] # Nil
         THEN LET v == RunValidations(s.Validations[field], field, m[field], log) IN
              IF v.status # "continue" THEN v
              ELSE ValidateFieldsNilIsMissing(Tail(order), m, v.calls)
         ELSE Returned(TRUE, EmptyMap, ValidationError(field, Nil, "field is missing"), log)

\* for field, validations := range s.Validations { ... }; return nil
RECURSIVE ValidateFields(_, _, _)
ValidateFields(order, m, log) ==
    IF order = <<>> THEN Returned(TRUE, EmptyMap, NoError, log)
    ELSE LET field == Head(order) IN
         IF field \in DOMAIN m
         THEN LET v == RunValidations(s.Validations[field], field, m[field], log) IN
              IF v.status # "continue" THEN v
              ELSE ValidateFields(Tail(order), m, v.calls)
         ELSE Returned(TRUE, EmptyMap, ValidationError(field, Nil, "field is missing"), log)

\* mutant of ValidateCall: the final return nil sits inside the loop, so
\* only the first field visited is checked
ValidateCallFirstFieldOnly(d, vOrder) ==
    ValidateFields(IF vOrder = <<>> THEN <<>> ELSE <<Head(vOrder)>>, d.fields, <<>>)

\* Validate(data), the map loop visiting its keys in the given order
ValidateCall(d, vOrder) == ValidateFields(vOrder, d.fields, <<>>)

----------------------------------------------------------------------------
(* State machine                                                           *)

\* values of the fields of the records drawn
RecordValues == {Str("admin"), GoInt(1)}

Records ==
    {[kind |-> "struct", fields |-> m] : m \in MapsOver(FieldNames, RecordValues)}
    \cup {[kind |-> k, fields |-> EmptyMap] : k \in RecordKinds \ ObjectKinds}

\* fields a transformation, a predicate is registered for in the
\* configurations drawn
TransformedNames == {"name", "role"}
ConditionalNames == {"email", "role"}

SerializeConfigs ==
    {[Fields |-> fs, Validations |-> EmptyMap, Transformations |-> ts, ConditionalFields |-> cs] :
        fs \in SeqsUpTo(FieldNames, MaxFields),
        ts \in MapsOver(TransformedNames, TransformKinds),
        cs \in MapsOver(ConditionalNames, ConditionKinds)}

NoReturn == [status |-> "none", isNil |-> TRUE, result |-> EmptyMap, err |-> NoError]

\* no earlier call, no Deserialize target
NoRecord == [kind |-> "none", fields |-> EmptyMap]
NoTarget == [kind |-> "none", types |-> EmptyMap, fields |-> EmptyMap]

\* what a map[string]interface{} argument can be: a map, or the nil map
MapKinds == {"map", "nil"}

InitSerialize ==
    /\ s \in SerializeConfigs
    /\ data \in Records
    /\ op = "none"
    /\ ret = NoReturn
    /\ calls = <<>>
    /\ out = NoTarget
    /\ prev = NoRecord
    /\ text = NoText

\* mutant of Serialize: a record that is a map is transformed and
\* filtered in place
SerializeInPlace ==
    /\ op = "none"
    /\ \E tOrder \in Orders(DOMAIN s.Transformations),
          cOrder \in Orders(DOMAIN s.ConditionalFields) :
          LET r == SerializeCall(data, tOrder, cOrder) IN
          /\ ret' = [status |-> r.status, isNil |-> r.isNil, result |-> r.result, err |-> r.err]
          /\ calls' = r.calls
          /\ data' = IF data.kind = "map" /\ r.status = "returned" /\ r.err = NoError
                     THEN [data EXCEPT !.fields = r.result]
                     ELSE data
    /\ op' = "Serialize"
    /\ UNCHANGED <<s, out, prev, text>>

Serialize ==
    /\ op = "none"
    /\ \E tOrder \in Orders(DOMAIN s.Transformations),
          cOrder \in Orders(DOMAIN s.ConditionalFields) :
          LET r == SerializeCall(data, tOrder, cOrder) IN
          /\ ret' = [status |-> r.status, isNil |-> r.isNil, result |-> r.result, err |-> r.err]
          /\ calls' = r.calls
    /\ op' = "Serialize"
    /\ UNCHANGED <<s, data, out, prev, text>>

NextSerialize == Serialize

SpecSerialize == InitSerialize /\ [][NextSerialize]_vars

\* values of the data mappings handed to Validate
DataValues == {Str(""), Str("alice"), Float(0), Float(1)}

DataMaps == {[kind |-> "map", fields |-> m] : m \in MapsOver(FieldNames, DataValues)}

\* fields a validator chain is registered for in the configurations drawn
ValidatedNames == {"name", "email"}

ValidateConfigs ==
    {[Fields |-> <<>>, Validations |-> vs, Transformations |-> EmptyMap,
      ConditionalFields |-> EmptyMap] :
        vs \in MapsOver(ValidatedNames, SeqsUpTo(ValidatorKinds, MaxChain))}

InitValidate ==
    /\ s \in ValidateConfigs
    /\ data \in DataMaps
    /\ op = "none"
    /\ ret = NoReturn
    /\ calls = <<>>
    /\ out = NoTarget
    /\ prev = NoRecord
    /\ text = NoText

Validate ==
    /\ op = "none"
    /\ data.kind \in MapKinds
    /\ \E vOrder \in Orders(DOMAIN s.Validations) :
          LET r == ValidateCall(data, vOrder) IN
          /\ ret' = [status |-> r.status, isNil |-> r.isNil, result |-> r.result, err |-> r.err]
          /\ calls' = r.calls
    /\ op' = "Validate"
    /\ UNCHANGED <<s, data, out, prev, text>>

NextValidate == Validate

SpecValidate == InitValidate /\ [][NextValidate]_vars

\* the caller hands the mapping Serialize returned to its next call
PassResult ==
    /\ op = "Serialize"
    /\ ret.status = "returned" /\ ret.err = NoError
    /\ prev = NoRecord
    /\ prev' = data
    /\ data' = IF ret.isNil THEN [kind |-> "nil", fields |-> EmptyMap]
               ELSE [kind |-> "map", fields |-> ret.result]
    /\ op' = "none"
    /\ ret' = NoReturn
    /\ calls' = <<>>
    /\ UNCHANGED <<s, out, text>>

Deserialize ==
    /\ op = "none"
    /\ data.kind \in MapKinds
    /\ out # NoTarget
    /\ LET r == DeserializeCall(data, out) IN
       /\ ret' = [status |-> "returned", isNil |-> TRUE, result |-> EmptyMap, err |-> r.err]
       /\ out' = r.out
    /\ calls' = <<>>
    /\ op' = "Deserialize"
    /\ UNCHANGED <<s, data, prev, text>>

\* values of the fields of the records sent on a round trip: 2^53 + 1 is the
\* first integer a float64 cannot hold
RoundTripValues == {Str("admin"), GoInt(1), GoInt64(Mantissa53, 1)}

RoundTripRecords ==
    {[kind |-> "struct", fields |-> m] : m \in MapsOver(FieldNames, RoundTripValues)}
    \cup {[kind |-> k, fields |-> EmptyMap] : k \in RecordKinds \ ObjectKinds}

\* the struct type of a record: the Go type of each declared field
ShapeOf(d) == [f \in DOMAIN d.fields |-> d.fields[f].tag]

\* the zero-valued records Deserialize may be given for the fields of d,
\* through a pointer or (wrongly) by value
Targets(d) ==
    {[kind |-> k, types |-> ty, fields |-> [f \in DOMAIN ty |-> ZeroValue(ty[f])]] :
        k \in {"ptr", "value"}, ty \in [DOMAIN d.fields -> FieldTypes]}

\* the configuration with no option set
NoOptions ==
    [Fields |-> <<>>, Validations |-> EmptyMap, Transformations |-> EmptyMap,
     ConditionalFields |-> EmptyMap]

InitRoundTrip ==
    /\ s = NoOptions
    /\ data \in RoundTripRecords
    /\ op = "none"
    /\ ret = NoReturn
    /\ calls = <<>>
    /\ out \in Targets(data)
    /\ prev = NoRecord
    /\ text = NoText

NextRoundTrip == Serialize \/ PassResult \/ Deserialize

SpecRoundTrip == InitRoundTrip /\ [][NextRoundTrip]_vars

\* configurations under which a record is encoded as text: every option
\* set or not
TextConfigs ==
    {[Fields |-> fs, Validations |-> vs, Transformations |-> ts, ConditionalFields |-> cs] :
        fs \in SeqsUpTo(FieldNames, MaxFields),
        vs \in MapsOver({"name"}, SeqsUpTo(ValidatorKinds, 1)),
        ts \in MapsOver({"name"}, TransformKinds),
        cs \in MapsOver({"email"}, ConditionKinds)}

InitText ==
    /\ s \in TextConfigs
    /\ data \in Records
    /\ op = "none"
    /\ ret = NoReturn
    /\ calls = <<>>
    /\ out = NoTarget
    /\ prev = NoRecord
    /\ text = NoText

SerializeToXML ==
    /\ op = "none"
    /\ LET r == SerializeToXMLCall(data) IN
       /\ ret' = [status |-> r.status, isNil |-> TRUE, result |-> EmptyMap, err |-> r.err]
       /\ text' = r.text
    /\ calls' = <<>>
    /\ op' = "SerializeToXML"
    /\ UNCHANGED <<s, data, out, prev>>

SerializeToYAML ==
    /\ op = "none"
    /\ LET r == SerializeToYAMLCall(data) IN
       /\ ret' = [status |-> r.status, isNil |-> TRUE, result |-> EmptyMap, err |-> r.err]
       /\ text' = r.text
    /\ calls' = <<>>
    /\ op' = "SerializeToYAML"
    /\ UNCHANGED <<s, data, out, prev>>

NextText == SerializeToXML \/ SerializeToYAML

SpecText == InitText /\ [][NextText]_vars

\* configurations of the calls that are chained: an allowlist, README's
\* transformation of role and predicate on email, one-validator chains
PipelineConfigs ==
    {[Fields |-> fs, Validations |-> vs, Transformations |-> ts, ConditionalFields |-> cs] :
        fs \in SeqsUpTo(FieldNames, MaxFields),
        vs \in MapsOver({"email"}, SeqsUpTo({"NotEmpty", "Positive"}, 1)),
        ts \in MapsOver({"role"}, {"ToUpper"}),
        cs \in MapsOver({"email"}, ConditionKinds)}

\* The predefined validators, each registered alone for one field of a
\* mapping handed to Validate as the caller built it.
RECURSIVE Join(_)
Join(q) == IF q = <<>> THEN "" ELSE Head(q) \o Join(Tail(q))

RECURSIVE Repeat(_, _)
Repeat(c, n) == IF n <= 0 THEN "" ELSE c \o Repeat(c, n - 1)

\* one character of each class ValidPassword looks for, and one of none
PasswordChars == {"A", "b", "1", "!", "?"}

\* a head of up to MaxHead characters, alone or filled up with "?" to
\* 7, 8 or 9 characters; and the two passwords of the documentation
Passwords ==
    {"Ab1!ab1!", "Short1!"} \cup
    {Join(h) \o Repeat("?", n - Len(h)) : h \in SeqsUpTo(PasswordChars, MaxHead), n \in {0, 7, 8, 9}}

\* what a caller can put in a map[string]interface{}: strings, nil,
\* float64, int and int64 numbers
BuiltinValues ==
    {Str(p) : p \in Passwords} \cup
    {Nil, Float(0 - 1), Float(0), Float(1), Float64(1, 0), GoInt(0 - 5), GoInt(0), GoInt(5),
     GoInt64(1, 0)}

BuiltinConfigs ==
    {[Fields |-> <<>>, Transformations |-> EmptyMap, ConditionalFields |-> EmptyMap,
      Validations |-> [f \in {"password"} |-> <<v>>]] :
        v \in {"NotEmpty", "Positive", "ValidPassword"}}

InitBuiltins ==
    /\ s \in BuiltinConfigs
    /\ data \in {[kind |-> "map", fields |-> [f \in {"password"} |-> v]] : v \in BuiltinValues}
    /\ op = "none"
    /\ ret = NoReturn
    /\ calls = <<>>
    /\ out = NoTarget
    /\ prev = NoRecord
    /\ text = NoText

NextBuiltins == Validate

SpecBuiltins == InitBuiltins /\ [][NextBuiltins]_vars

\* records that are themselves a map[string]interface{}, as in README
MapRecords == {[kind |-> "map", fields |-> m] : m \in MapsOver(FieldNames, RecordValues)}

InitPipeline ==
    /\ s \in PipelineConfigs
    /\ data \in Records \cup MapRecords
    /\ op = "none"
    /\ ret = NoReturn
    /\ calls = <<>>
    /\ out = NoTarget
    /\ prev = NoRecord
    /\ text = NoText

NextPipeline == Serialize \/ PassResult \/ Validate

SpecPipeline == InitPipeline /\ [][NextPipeline]_vars

----------------------------------------------------------------------------
(* Vocabulary of the properties                                            *)

\* the mapping decoded from the record (stage 1 of Serialize)
Decoded == Unmarshal(Marshal(data)).result

\* the names listed in Fields
Listed == {s.Fields[i] : i \in DOMAIN s.Fields}

\* the call returned (did not panic) without an error
Succeeded == ret.status = "returned" /\ ret.err = NoError
SerializeOK == op = "Serialize" /\ Succeeded

\* the decoded value of f after the transform stage
TransformedValue(f) ==
    IF f \in DOMAIN s.Transformations
    THEN Transform(s.Transformations[f], Decoded[f])
    ELSE Decoded[f]

\* the mapping as it stands after the transform stage
AfterTransform == [f \in DOMAIN Decoded |-> TransformedValue(f)]

\* the predicate registered for f was called and returned include
Answered(f, include) ==
    \E i \in DOMAIN calls :
        calls[i].fn = "condition" /\ calls[i].field = f /\ calls[i].include = include

\* f is in the mapping after the conditional stage
Retained(f) == f \in DOMAIN Decoded /\ ~Answered(f, FALSE)

----------------------------------------------------------------------------
(* C1 *)

\* C1: when Serialize succeeds, a field that is present in the decoded
\* mapping, has a registered transformation returning a non-nil value, is
\* listed in Fields and is not removed by a predicate, carries in the
\* returned mapping the transformed value.
C1_TransformBeforeFilter ==
    SerializeOK =>
        \A f \in FieldNames :
            ( /\ f \in DOMAIN Decoded
              /\ f \in DOMAIN s.Transformations
              /\ ~TransformPanics(s.Transformations[f], Decoded[f])
              /\ Transform(s.Transformations[f], Decoded[f]) # Nil
              /\ f \in Listed
              /\ ~Answered(f, FALSE) )
            => /\ f \in DOMAIN ret.result
               /\ ret.result[f] = Transform(s.Transformations[f], Decoded[f])

\* a listed, transformed field whose value the transformation changed
C1_Witness ==
    /\ SerializeOK
    /\ \E f \in Listed \cap DOMAIN Decoded \cap DOMAIN s.Transformations :
          /\ ~Answered(f, FALSE)
          /\ ret.result[f] = Str("ADMIN")
          /\ Decoded[f] = Str("admin")

----------------------------------------------------------------------------
(* C2 *)

----------------------------------------------------------------------------
(* C3 *)

\* C3: with an empty Fields, a successful Serialize returns the decoded and
\* transformed mapping without the conditionally excluded fields: a field
\* is a key of the result iff it was decoded and has no predicate or its
\* predicate returned true.
C3_NoAllowlist ==
    (SerializeOK /\ Len(s.Fields) = 0) =>
        /\ DOMAIN ret.result =
              {f \in DOMAIN Decoded :
                  f \notin DOMAIN s.ConditionalFields \/ Answered(f, TRUE)}
        /\ \A f \in DOMAIN ret.result : ret.result[f] = TransformedValue(f)

\* README's example: email is conditional on role = "admin"
C3_Witness ==
    /\ SerializeOK /\ Len(s.Fields) = 0
    /\ "email" \in DOMAIN s.ConditionalFields
    /\ s.ConditionalFields["email"] = "IsAdmin"
    /\ {"email", "role"} \subseteq DOMAIN Decoded
    /\ Decoded["role"] # Str("admin")
    /\ DOMAIN ret.result = DOMAIN Decoded \ {"email"}

----------------------------------------------------------------------------
(* C4 *)

\* C4: every predicate of ConditionalFields is called with the mapping as
\* it stands after the transform stage, holding every decoded field.
C4_PredicateSeesFullMapping ==
    op = "Serialize" =>
        \A i \in DOMAIN calls :
            calls[i].fn = "condition" => calls[i].mapping = AfterTransform

----------------------------------------------------------------------------
(* C5 *)

\* no validator of the chain of f was called
NotValidated(f) == \A i \in DOMAIN calls : calls[i].field # f

\* f is present and every validator of its chain accepts its value
Passes(f) ==
    /\ f \in DOMAIN data.fields
    /\ \A i \in DOMAIN s.Validations[f] :
          /\ s.Validations[f][i] # NilFunc
          /\ Validation(s.Validations[f][i], data.fields[f]) = NilError

\* the fields named in Validations that the data mapping lacks
Missing == {f \in DOMAIN s.Validations : f \notin DOMAIN data.fields}

\* C5 as stated: for every field named in Validations and absent from the
\* data, Validate returns the "field is missing" error of that very field
\* and calls no validator of its chain.
C5_Original ==
    op = "Validate" =>
        \A f \in Missing :
            /\ ret.status = "returned"
            /\ ret.err = ValidationError(f, Nil, "field is missing")
            /\ NotValidated(f)

\* C5 (amended): when a field named in Validations is absent from the
\* data, Validate does not succeed and calls no validator of that field's
\* chain; an error naming that field is the ValidationError "field is
\* missing" without a value; and that error is the one returned when every
\* other named field is present and passes its chain.
C5_MissingField ==
    op = "Validate" =>
        \A f \in Missing :
            /\ ~Succeeded
            /\ NotValidated(f)
            /\ (ret.status = "returned" /\ ret.err.Field = f)
                  => ret.err = ValidationError(f, Nil, "field is missing")
            /\ (\A g \in (DOMAIN s.Validations) \ {f} : Passes(g))
                  => (ret.status = "returned"
                      /\ ret.err = ValidationError(f, Nil, "field is missing"))

\* a missing field with a non-empty chain is reported after another field
\* had its chain run
C5_Witness ==
    /\ op = "Validate"
    /\ \E f \in Missing :
          /\ s.Validations[f] # <<>>
          /\ ret.err = ValidationError(f, Nil, "field is missing")
          /\ NotValidated(f)
    /\ calls # <<>>

----------------------------------------------------------------------------
(* C6 *)

\* the number of calls before the i-th that were made for the same field
Earlier(i) == Cardinality({j \in 1..(i - 1) : calls[j].field = calls[i].field})

\* C6: the validators of a field run in chain order on the field's value,
\* one field at a time; a validator that fails is the last function called
\* and Validate returns the ValidationError with that field, its value and
\* that validator's message.
C6_FailFast ==
    op = "Validate" =>
        /\ \A i \in DOMAIN calls :
              /\ calls[i].fn = "validation"
              /\ calls[i].field \in DOMAIN s.Validations \cap DOMAIN data.fields
              /\ Earlier(i) < Len(s.Validations[calls[i].field])
              /\ calls[i].id = s.Validations[calls[i].field][Earlier(i) + 1]
              /\ calls[i].value = data.fields[calls[i].field]
              /\ (i > 1 /\ calls[i - 1].field # calls[i].field) => Earlier(i) = 0
              /\ calls[i].err # NilError =>
                    /\ i = Len(calls)
                    /\ ret.status = "returned"
                    /\ ret.err = ValidationError(calls[i].field, calls[i].value, calls[i].err)
        /\ (ret.status = "returned" /\ ret.err # NoError
                /\ ret.err.Message # "field is missing")
              => (calls # <<>> /\ calls[Len(calls)].err = ret.err.Message)

\* the first validator of a chain of two fails: the second is not called,
\* nor is the chain of the other field
C6_Witness ==
    /\ op = "Validate"
    /\ Len(calls) = 1
    /\ calls[1].err # NilError
    /\ Len(s.Validations[calls[1].field]) = 2
    /\ \E g \in DOMAIN s.Validations \cap DOMAIN data.fields :
          g # calls[1].field /\ s.Validations[g] # <<>>

----------------------------------------------------------------------------
(* C7 *)

\* C7: Validate succeeds iff every field named in Validations is present
\* in the data and passes every validator of its chain; nothing else in
\* the data matters, and an empty Validations always succeeds.
C7_ValidateIff ==
    op = "Validate" =>
        /\ Succeeded <=> \A f \in DOMAIN s.Validations : Passes(f)
        /\ DOMAIN s.Validations = {} => Succeeded

\* success with two validated fields, next to an empty field nobody validates
C7_Witness ==
    /\ op = "Validate" /\ Succeeded
    /\ Len(calls) >= 2
    /\ calls[1].field # calls[Len(calls)].field
    /\ \E h \in (DOMAIN data.fields) \ DOMAIN s.Validations : data.fields[h] = Str("")

----------------------------------------------------------------------------
(* C8 *)

\* C8: no call ends in a panic, and a call that fails returns one of the
\* typed errors: Serialize a SerializationError or a TransformationError,
\* Deserialize a SerializationError, Validate a ValidationError.
C8_TypedErrorsOnly ==
    /\ ret.status # "panic"
    /\ (ret.status = "returned" /\ ret.err # NoError) =>
          /\ op = "Serialize" =>
                ret.err.type \in {"SerializationError", "TransformationError"}
          /\ op = "Deserialize" => ret.err.type = "SerializationError"
          /\ op = "Validate" => ret.err.type = "ValidationError"

----------------------------------------------------------------------------
(* C9 *)

\* C9: when a registered transformation returns nil for a field of the
\* decoded mapping, it is the last function Serialize calls, and Serialize
\* returns a nil map and the TransformationError with that field and the
\* field's value before the transformation.
C9_NilTransformation ==
    op = "Serialize" =>
        \A i \in DOMAIN calls :
            (calls[i].fn = "transform" /\ calls[i].returned /\ calls[i].out = Nil) =>
                /\ i = Len(calls)
                /\ calls[i].field \in DOMAIN Decoded
                /\ calls[i].value = Decoded[calls[i].field]
                /\ ret.status = "returned"
                /\ ret.isNil /\ ret.result = EmptyMap
                /\ ret.err = TransformationError(calls[i].field, Decoded[calls[i].field],
                                                 "transformation returned nil")

\* a transformation returns nil after another field was already upper-cased
C9_Witness ==
    /\ op = "Serialize"
    /\ Len(calls) = 2
    /\ calls[1].fn = "transform" /\ calls[1].out = Str("ADMIN")
    /\ calls[2].fn = "transform" /\ calls[2].returned /\ calls[2].out = Nil
    /\ ret.err.type = "TransformationError"
    /\ ret.err.Value = Float(1)

----------------------------------------------------------------------------
(* C10 *)

\* what json reports for the record: the encoder's error, else the error
\* of decoding the text into a map
EncodingCause ==
    IF Marshal(data).err # "" THEN Marshal(data).err ELSE Unmarshal(Marshal(data)).err

\* Serialize returned a SerializationError carrying the cause and no map,
\* and called no transformation and no predicate
FailedAtEncoding ==
    /\ ret.status = "returned"
    /\ ret.isNil /\ ret.result = EmptyMap
    /\ ret.err.type = "SerializationError"
    /\ ret.err.Message \in {"failed to serialize struct: " \o EncodingCause,
                             "failed to convert JSON to map: " \o EncodingCause}
    /\ calls = <<>>

\* C10 as stated: whenever the encoder fails or the record encodes to
\* anything that is not an object, Serialize fails at the encoding.
C10_Original ==
    (op = "Serialize" /\ (Marshal(data).err # "" \/ Marshal(data).json # "object"))
        => FailedAtEncoding

\* C10 (amended): whenever the encoder fails or the record encodes to
\* something that is neither an object nor null (a sequence, a number),
\* Serialize fails at the encoding.
C10_NotEncodable ==
    (op = "Serialize"
        /\ (Marshal(data).err # "" \/ Marshal(data).json \notin {"object", "null"}))
        => FailedAtEncoding

\* a slice, serialized under a configuration that registers a
\* transformation and a predicate
C10_Witness ==
    /\ op = "Serialize"
    /\ data.kind = "slice"
    /\ DOMAIN s.Transformations # {}
    /\ DOMAIN s.ConditionalFields # {}
    /\ FailedAtEncoding

----------------------------------------------------------------------------
(* C11 *)

\* C11: for a configuration without options, Deserialize of the mapping
\* Serialize returned for a record, into an empty record of the same shape,
\* succeeds and leaves a record equal to the original on every field.
C11_RoundTrip ==
    (op = "Deserialize" /\ prev # NoRecord /\ s = NoOptions
        /\ out.kind = "ptr" /\ out.types = ShapeOf(prev))
        => (Succeeded /\ out.fields = prev.fields)

----------------------------------------------------------------------------
(* C12 *)

\* only the allowlist is set
FieldsOnly ==
    /\ Len(s.Fields) > 0
    /\ DOMAIN s.Transformations = {}
    /\ DOMAIN s.ConditionalFields = {}

\* C12: with only a non-empty Fields set, Serialize of the mapping a first
\* Serialize returned succeeds and returns that same mapping: same keys,
\* same values, the nils of the listed but absent fields included.
C12_AllowlistIdempotent ==
    (op = "Serialize" /\ prev # NoRecord /\ FieldsOnly) =>
        /\ Succeeded
        /\ ~ret.isNil
        /\ data.kind = "map"
        /\ ret.result = data.fields

\* a second pass over a mapping holding a number and the nil of a listed
\* field the record did not have
C12_Witness ==
    /\ op = "Serialize" /\ prev # NoRecord /\ FieldsOnly
    /\ prev.kind = "struct"
    /\ \E f, g \in Listed :
          /\ f \notin DOMAIN prev.fields /\ ret.result[f] = Nil
          /\ g \in DOMAIN prev.fields /\ ret.result[g] = Float(1)
    /\ \E h \in DOMAIN prev.fields : h \notin Listed

----------------------------------------------------------------------------
(* C13 *)

\* C13: SerializeToXML and SerializeToYAML call no transformation,
\* predicate or validator, and what they return is what the encoder makes
\* of the record alone, whatever the configuration: the text, or the
\* encoder's failure.
C13_TextPassthrough ==
    /\ op = "SerializeToXML" =>
          /\ calls = <<>>
          /\ ret.status = EncodeXML(data).status
          /\ text = EncodeXML(data).text
          /\ (ret.err = NoError) <=> (EncodeXML(data).err = "")
          /\ ret.err # NoError =>
                ret.err = SerializationError("failed to serialize to XML: "
                                             \o EncodeXML(data).err)
    /\ op = "SerializeToYAML" =>
          /\ calls = <<>>
          /\ ret.status = EncodeYAML(data).status
          /\ text = EncodeYAML(data).text
          /\ (ret.err = NoError) <=> (EncodeYAML(data).err = "")

\* a record with a field the allowlist does not name, a transformed field
\* and a conditionally excluded field, all of them in the XML text
C13_Witness ==
    /\ op = "SerializeToXML"
    /\ Len(s.Fields) > 0
    /\ "name" \in DOMAIN s.Transformations
    /\ "email" \in DOMAIN s.ConditionalFields /\ s.ConditionalFields["email"] = "Never"
    /\ {"name", "email"} \subseteq DOMAIN data.fields
    /\ "email" \notin Listed
    /\ text.format = "xml" /\ text.fields = data.fields

----------------------------------------------------------------------------
(* C14 *)

\* C14: a call of Serialize or Validate leaves the record or data mapping
\* it is given and the configuration as they were, whether it succeeds,
\* fails or panics.
C14_InputsUnchanged ==
    [][(op = "none" /\ op' \in {"Serialize", "Validate"}) => (s' = s /\ data' = data)]_vars

\* Serialize of a record that is a map returned a mapping with a
\* transformed value and without a conditionally removed field
C14_Witness ==
    /\ SerializeOK
    /\ data.kind = "map"
    /\ Len(s.Fields) = 0
    /\ \E f \in DOMAIN data.fields : f \notin DOMAIN ret.result
    /\ \E g \in DOMAIN ret.result : ret.result[g] = Str("ADMIN") /\ data.fields[g] = Str("admin")

----------------------------------------------------------------------------
(* C15 *)

\* a validator of the chain of ret.err.Field returned the error
ValidatorFailed ==
    /\ op = "Validate"
    /\ ret.status = "returned"
    /\ ret.err.type = "ValidationError"
    /\ ret.err.Message # "field is missing"

\* C15: when a validator of field f fails with message m, the text of the
\* error Validate returns is "validation failed for field 'f': m".
C15_ErrorText ==
    ValidatorFailed =>
        ErrorText(ret.err) =
            "validation failed for field '" \o ret.err.Field \o "': " \o ret.err.Message

----------------------------------------------------------------------------
(* C16 *)

IsUpper(c) == c \in {"A","B","C","D","E","F","G","H","I","J","K","L","M",
                     "N","O","P","Q","R","S","T","U","V","W","X","Y","Z"}
IsLower(c) == c \in {"a","b","c","d","e","f","g","h","i","j","k","l","m",
                     "n","o","p","q","r","s","t","u","v","w","x","y","z"}
IsDigit(c) == c \in {"0","1","2","3","4","5","6","7","8","9"}
IsSpecial(c) == c \in {"!","@","#","$","%","^","&","*","(",")","_","+","=","-"}

Chars(str) == {SubSeq(str, i, i) : i \in 1..Len(str)}

\* the six criteria in their order, and the message of each
Criteria(v) ==
    << v.tag = "string",
       Len(v.str) >= 8,
       \E c \in Chars(v.str) : IsUpper(c),
       \E c \in Chars(v.str) : IsLower(c),
       \E c \in Chars(v.str) : IsDigit(c),
       \E c \in Chars(v.str) : IsSpecial(c) >>

CriteriaMessages ==
    << "value is not a string",
       "password must be at least 8 characters long",
       "password must contain at least one uppercase letter",
       "password must contain at least one lowercase letter",
       "password must contain at least one number",
       "password must contain at least one special character" >>

PasswordCalls == {i \in DOMAIN calls : calls[i].fn = "validation" /\ calls[i].id = "ValidPassword"}

\* C16: ValidPassword returns no error exactly when all six criteria hold;
\* otherwise its message is that of the first criterion, in the order
\* non-string, length, uppercase, lowercase, digit, special, that does not
\* hold. "Ab1!ab1!" passes and "Short1!" fails on length.
C16_ValidPassword ==
    \A i \in PasswordCalls :
        LET v == calls[i].value
            err == calls[i].err
        IN  /\ (err = NilError) <=> (\A k \in 1..6 : Criteria(v)[k])
            /\ err # NilError =>
                  \E k \in 1..6 : /\ ~Criteria(v)[k]
                                   /\ \A j \in 1..(k - 1) : Criteria(v)[j]
                                   /\ err = CriteriaMessages[k]
            /\ v = Str("Ab1!ab1!") => err = NilError
            /\ v = Str("Short1!") => err = CriteriaMessages[2]

\* the 7-character password with all four classes was refused for its length
C16_Witness ==
    /\ op = "Validate"
    /\ PasswordCalls # {}
    /\ ret.err = ValidationError("password", Str("Short1!"), CriteriaMessages[2])
    /\ \A k \in 3..6 : Criteria(Str("Short1!"))[k]

----------------------------------------------------------------------------
(* C17 *)

IsNumber(v) == v.tag \in {"float64", "int", "int64"}

IsPositive(v) == v.hi > 0 \/ (v.hi = 0 /\ v.num > 0)

PositiveCalls == {i \in DOMAIN calls : calls[i].fn = "validation" /\ calls[i].id = "Positive"}

\* C17: Positive returns no error exactly when the value is a number
\* greater than 0, whatever numeric type the caller put in the mapping
\* given to Validate.
C17_Positive ==
    \A i \in PositiveCalls :
        (calls[i].err = NilError) <=> (IsNumber(calls[i].value) /\ IsPositive(calls[i].value))

----------------------------------------------------------------------------
(* C18 *)

\* C18: when Serialize succeeds, a field whose predicate returned false is
\* not a key of the returned mapping, whether or not Fields lists it.
C18_FalsePredicateExcluded ==
    SerializeOK =>
        \A f \in FieldNames : Answered(f, FALSE) => f \notin DOMAIN ret.result

----------------------------------------------------------------------------
(* C19 *)

\* the transformation registered for f was called
Transformed(f) ==
    \E i \in DOMAIN calls :
        calls[i].fn = "transform" /\ calls[i].field = f /\ calls[i].value = Decoded[f]

\* a transformation panicked or returned nil, which ends the transform stage
TransformStageCut ==
    \E i \in DOMAIN calls :
        calls[i].fn = "transform" /\ (~calls[i].returned \/ calls[i].out = Nil)

\* C19: in a Serialize call, unless an earlier transformation ended the
\* stage, the transformation of every registered field present in the
\* decoded mapping is called, whatever Fields lists and whatever the
\* predicates answer; one that returns nil makes the call return the
\* TransformationError of its field, listed or not, conditionally excluded
\* or not; and no transformation is called for a field that is absent from
\* the decoded mapping, even one Fields lists.
C19_TransformAllPresent ==
    op = "Serialize" =>
        /\ \A f \in DOMAIN s.Transformations \cap DOMAIN Decoded :
              /\ Transformed(f) \/ TransformStageCut
              /\ (Transformed(f) /\ s.Transformations[f] = "ReturnNil") =>
                    /\ ret.isNil
                    /\ ret.err = TransformationError(f, Decoded[f], "transformation returned nil")
        /\ \A i \in DOMAIN calls :
              calls[i].fn = "transform" =>
                 calls[i].field \in DOMAIN s.Transformations \cap DOMAIN Decoded
        /\ Succeeded =>
              \A f \in Listed \ DOMAIN Decoded : f \in DOMAIN ret.result /\ ret.result[f] = Nil

\* role is not listed and its predicate never includes it, yet its
\* transformation returning nil failed the call; name is listed, absent
\* from the record, and its transformation was not called
C19_Witness ==
    /\ op = "Serialize"
    /\ s.Fields = <<"name">>
    /\ DOMAIN s.Transformations = {"name", "role"}
    /\ s.Transformations["role"] = "ReturnNil"
    /\ "role" \in DOMAIN s.ConditionalFields /\ s.ConditionalFields["role"] = "Never"
    /\ "role" \in DOMAIN Decoded /\ "name" \notin DOMAIN Decoded
    /\ Len(calls) = 1 /\ calls[1].field = "role"
    /\ ret.err = TransformationError("role", Decoded["role"], "transformation returned nil")

----------------------------------------------------------------------------
(* C20 *)

\* Validate was given the mapping a successful Serialize with a non-empty
\* Fields returned
ValidatedSerialized == op = "Validate" /\ prev # NoRecord /\ Len(s.Fields) > 0

----------------------------------------------------------------------------
(* C21 *)

\* every registered validator is one of the predefined pure functions
PureValidators ==
    \A f \in DOMAIN s.Validations :
        \A i \in DOMAIN s.Validations[f] : s.Validations[f][i] # NilFunc

\* f is present and a validator of its chain refuses its value
Fails(f) ==
    /\ f \in DOMAIN data.fields
    /\ \E i \in DOMAIN s.Validations[f] :
          Validation(s.Validations[f][i], data.fields[f]) # NilError

\* what Validate returns when the map loop visits the fields in order o
OutcomeIn(o) == ValidateCall(data, o)

\* C21: with pure validators, Validate returns, and whether it returns nil
\* or an error is the same in every iteration order over Validations; the
\* error returned in any order is a ValidationError naming a field of
\* Validations that is missing from the data or has a failing validator.
C21_OrderIndependent ==
    (op = "Validate" /\ PureValidators) =>
        /\ ret.status = "returned"
        /\ \A o \in Orders(DOMAIN s.Validations) :
              /\ OutcomeIn(o).status = "returned"
              /\ (OutcomeIn(o).err = NoError) <=> (ret.err = NoError)
              /\ OutcomeIn(o).err # NoError =>
                    /\ OutcomeIn(o).err.type = "ValidationError"
                    /\ OutcomeIn(o).err.Field \in DOMAIN s.Validations
                    /\ OutcomeIn(o).err.Field \in Missing \/ Fails(OutcomeIn(o).err.Field)
        /\ ret.err # NoError =>
              /\ ret.err.type = "ValidationError"
              /\ ret.err.Field \in DOMAIN s.Validations
              /\ ret.err.Field \in Missing \/ Fails(ret.err.Field)

\* two fields fail, one is missing and one is refused by its validator,
\* and the other iteration order returns the other field's error
C21_Witness ==
    /\ op = "Validate" /\ PureValidators
    /\ ret.err.type = "ValidationError"
    /\ ret.err.Field \in Missing
    /\ \E o \in Orders(DOMAIN s.Validations) :
          /\ OutcomeIn(o).err.type = "ValidationError"
          /\ OutcomeIn(o).err.Field # ret.err.Field
          /\ Fails(OutcomeIn(o).err.Field)

----------------------------------------------------------------------------
(* C22 *)

\* C22: Serialize of a nil record returns without an error and without a
\* panic: no transformation is called, every registered predicate is
\* called on the nil mapping and removing from it is harmless; the result
\* is the empty (nil) mapping when Fields is empty, and the mapping of
\* every listed field to nil when Fields is non-empty.
C22_NilRecord ==
    (op = "Serialize" /\ data.kind = "nil") =>
        /\ Succeeded
        /\ \A i \in DOMAIN calls :
              /\ calls[i].fn = "condition"
              /\ calls[i].mapping = EmptyMap
        /\ \A f \in DOMAIN s.ConditionalFields : Answered(f, TRUE) \/ Answered(f, FALSE)
        /\ Len(s.Fields) = 0 => (ret.isNil /\ ret.result = EmptyMap)
        /\ Len(s.Fields) > 0 =>
              /\ ~ret.isNil
              /\ DOMAIN ret.result = Listed
              /\ \A f \in Listed : ret.result[f] = Nil

\* a nil record under a configuration with a transformation, a predicate
\* that excludes its field, and an allowlist
C22_Witness ==
    /\ SerializeOK
    /\ data.kind = "nil"
    /\ DOMAIN s.Transformations # {}
    /\ \E f \in DOMAIN s.ConditionalFields : Answered(f, FALSE)
    /\ Len(s.Fields) > 0
    /\ \A f \in Listed : ret.result[f] = Nil

====
